---- MODULE Spec2Model ----
(***************************************************************************)
(* Session state, conversation store and transcript projection of          *)
(* computer_use_demo/app.py (Gradio front end of the computer-use agent).  *)
(*                                                                         *)
(* A Python dict is a TLA+ function whose DOMAIN is the set of keys that   *)
(* are present; a Python list is a sequence; Python None is the string     *)
(* None; a raised exception is the "exc" field of an operator's result.    *)
(***************************************************************************)
EXTENDS Integers, Sequences, FiniteSets, TLC

VARIABLES
    state,      \* the session dict `state` of line 260
    env,        \* files under ~/.anthropic, environment variables, cloud credentials
    pending,    \* inputs submitted to chat_input and not yet handed to process_input
    submitted,  \* number of inputs submitted so far
    pc,         \* per worker thread: position inside process_input
    local,      \* per worker thread: user_input and the number of its run
    trace,      \* steps completed by the latest process_input call
    outcome,    \* how the latest process_input call ended
    chatbot,    \* the transcript last returned to the gr.Chatbot
    files,      \* files written by the projection
    loopArgs,   \* arguments of the latest sampling_loop call
    owner       \* history: for each stored turn, the run that appended it

vars == <<state, env, pending, submitted, pc, local, trace, outcome, chatbot,
          files, loopArgs, owner>>

----------------------------------------------------------------------------
(* Bounds of the model *)

NumWorkers == 2
MaxInputs == 2
MaxLoopMsgs == 4
MaxClock == 2
MaxStore == 2

Workers == 1..NumWorkers
Times == 1..MaxClock

----------------------------------------------------------------------------
(* Python values *)

None == "None"
Truthy(s) == s # None /\ s # ""
Or(a, b) == IF Truthy(a) THEN a ELSE b

Has(d, k) == k \in DOMAIN d
Put(d, k, v) == [x \in (DOMAIN d) \cup {k} |-> IF x = k THEN v ELSE d[x]]
Get(d, k) == IF Has(d, k) THEN d[k] ELSE None
EmptyDict == [x \in {} |-> None]

Sender == [USER |-> "user", BOT |-> "assistant", TOOL |-> "tool"]

APIProvider == {"anthropic", "bedrock", "vertex"}

PROVIDER_TO_DEFAULT_MODEL_NAME ==
    [p \in APIProvider |->
        CASE p = "anthropic" -> "claude-3-5-sonnet-20241022"
          [] p = "bedrock"   -> "anthropic.claude-3-5-sonnet-20241022-v2:0"
          [] p = "vertex"    -> "claude-3-5-sonnet-v2@20241022"]

PLACEHOLDER_KEY == "YOUR_API_KEY_HERE"
DEFAULT_N_IMAGES == 10

----------------------------------------------------------------------------
(* The environment: storage files, environment variables, cloud credentials *)

MISSING == "MISSING"    \* the file does not exist
UNSET == "UNSET"        \* the environment variable is not set

AllEnvs ==
    [ key_file          : {MISSING, " ", "sk-file"},
      prompt_file       : {MISSING, "be brief"},
      ANTHROPIC_API_KEY : {UNSET, "sk-env"},
      API_PROVIDER      : {UNSET, "", "bedrock", "vertex", "bogus"},
      aws_credentials   : BOOLEAN,
      CLOUD_ML_REGION   : {UNSET, "us-east5"},
      google_credentials: BOOLEAN ]

CloudReady(e) ==
    e.aws_credentials /\ e.CLOUD_ML_REGION # UNSET /\ e.google_credentials

\* The environments explored: every key and provider setting on a machine with
\* its cloud credentials in place, and every cloud setting for the cloud providers.
Envs ==
    { e \in AllEnvs :
        \/ CloudReady(e) /\ e.prompt_file = MISSING
        \/ /\ e.API_PROVIDER \in {"bedrock", "vertex"}
           /\ e.key_file = "sk-file" /\ e.ANTHROPIC_API_KEY = UNSET
           /\ e.prompt_file = "be brief" }

strip(s) == IF s = " " THEN "" ELSE s

load_from_storage(e, filename) ==
    LET content == IF filename = "api_key" THEN e.key_file ELSE e.prompt_file
    IN  IF content # MISSING /\ strip(content) # "" THEN strip(content) ELSE None

getenv(e, name, default) ==
    LET v == CASE name = "ANTHROPIC_API_KEY" -> e.ANTHROPIC_API_KEY
               [] name = "API_PROVIDER"      -> e.API_PROVIDER
               [] name = "CLOUD_ML_REGION"   -> e.CLOUD_ML_REGION
    IN  IF v = UNSET THEN default ELSE v

validate_auth(provider, api_key, e) ==
    IF provider = "anthropic" /\ ~Truthy(api_key)
        THEN "Enter your Anthropic API key to continue."
    ELSE IF provider = "bedrock" /\ ~e.aws_credentials
        THEN "You must have AWS credentials set up to use the Bedrock API."
    ELSE IF provider = "vertex" /\ ~Truthy(getenv(e, "CLOUD_ML_REGION", None))
        THEN "Set the CLOUD_ML_REGION environment variable to use the Vertex API."
    ELSE IF provider = "vertex" /\ ~e.google_credentials
        THEN "Your google cloud credentials are not set up correctly."
    ELSE None

----------------------------------------------------------------------------
(* Session bootstrap *)

Ok(st) == [st |-> st, exc |-> "none"]
Raise(st, exc) == [st |-> st, exc |-> exc]

\* As _reset_model, with the Anthropic default whatever the provider.
_reset_model_fixed(st) == Ok(Put(st, "model", PROVIDER_TO_DEFAULT_MODEL_NAME["anthropic"]))

_reset_model(st) ==
    IF st["provider"] \in DOMAIN PROVIDER_TO_DEFAULT_MODEL_NAME
        THEN Ok(Put(st, "model", PROVIDER_TO_DEFAULT_MODEL_NAME[st["provider"]]))
        ELSE Raise(st, "KeyError")

\* As Default, without the `not in state` guard.
Default_overwrite(st, k, v) == Put(st, k, v)

Default(st, k, v) == IF Has(st, k) THEN st ELSE Put(st, k, v)

setup_state(st, e) ==
    LET s1 == Default(st, "messages", <<>>)
        found == Or(load_from_storage(e, "api_key"), getenv(e, "ANTHROPIC_API_KEY", ""))
        s2 == Default(s1, "api_key", IF Truthy(found) THEN found ELSE PLACEHOLDER_KEY)
        s3 == Default(s2, "provider", Or(getenv(e, "API_PROVIDER", "anthropic"), "anthropic"))
        s4 == Default(s3, "provider_radio", s3["provider"])
        r5 == IF Has(s4, "model") THEN Ok(s4) ELSE _reset_model(s4)
        s6 == Default(r5.st, "auth_validated", FALSE)
        s7 == Default(s6, "responses", EmptyDict)
        s8 == Default(s7, "tools", EmptyDict)
        s9 == Default(s8, "only_n_most_recent_images", DEFAULT_N_IMAGES)
        s10 == Default(s9, "custom_system_prompt", Or(load_from_storage(e, "system_prompt"), ""))
        s11 == Default(s10, "hide_images", FALSE)
    IN  IF r5.exc # "none" THEN r5 ELSE Ok(s11)

----------------------------------------------------------------------------
(* Content blocks, turns and rendered values *)

TextBlock(text) == [cls |-> "TextBlock", text |-> text]
BetaTextBlock(text) == [cls |-> "BetaTextBlock", text |-> text]
BetaToolUseBlock(id, name, input) ==
    [cls |-> "BetaToolUseBlock", id |-> id, name |-> name, input |-> input]
ToolResult(output, error, base64_image) ==
    [cls |-> "ToolResult", output |-> output, error |-> error, base64_image |-> base64_image]

\* A rendered value: a str, raw bytes, a gr.Image component or None.
Str(parts) == [t |-> "str", v |-> parts]
Bytes(data) == [t |-> "bytes", v |-> <<data>>]
GrImage(path) == [t |-> "gr.Image", v |-> <<path>>]
NoValue == [t |-> "None", v |-> <<>>]
Raised(exc) == [t |-> "raise", v |-> <<exc>>]

PNG_B64 == "iVBORw0KGgo="
PREFIXED_B64 == "data:image/png;base64,iVBORw0KGgo="
BAD_B64 == "not-an-image"

\* base64.b64decode followed by PIL's Image.open: the payload, or a raise.
b64decode(b64) == IF b64 = PNG_B64 THEN [exc |-> "none", data |-> "PNG"]
                  ELSE [exc |-> "DecodeError", data |-> ""]

HasAttr(message, name) == name \in DOMAIN message
IsInstance(message, classes) == message.cls \in classes

\* bool(message): "" is falsy, a ToolResult is falsy when every field is.
Falsy(message) ==
    \/ message.cls = "str" /\ message.text = ""
    \/ /\ message.cls \in {"ToolResult", "CLIResult"}
       /\ ~Truthy(message.output) /\ ~Truthy(message.error)
       /\ ~Truthy(message.base64_image)

_render_message(sender, message, st) ==
    LET is_tool_result ==
            message.cls # "str" /\ IsInstance(message, {"ToolResult", "CLIResult"})
    IN  IF \/ Falsy(message)
           \/ /\ is_tool_result
              /\ st["hide_images"]
              /\ ~HasAttr(message, "error")
              /\ ~HasAttr(message, "output")
        THEN NoValue
        ELSE IF is_tool_result THEN
            IF Truthy(message.output) THEN Str(<<message.output>>)
            ELSE IF Truthy(message.error) THEN Str(<<"Error: ", message.error>>)
            ELSE IF Truthy(message.base64_image) /\ ~st["hide_images"] THEN
                IF b64decode(message.base64_image).exc = "none"
                    THEN Bytes(b64decode(message.base64_image).data)
                    ELSE Raised(b64decode(message.base64_image).exc)
            ELSE NoValue
        ELSE IF IsInstance(message, {"BetaTextBlock", "TextBlock"})
            THEN Str(<<message.text>>)
        ELSE IF IsInstance(message, {"BetaToolUseBlock", "ToolUseBlock"})
            THEN Str(<<"Tool Use: ", message.name, "\nInput: ", message.input>>)
        ELSE Str(<<message.text>>)

\* strftime('%Y-%m-%d_%H-%M-%S') of the clock reading t, plus ".png"
Png(t) == <<"2024-11-01_09-00-01.png", "2024-11-01_09-00-02.png",
            "2024-11-01_09-00-03.png", "2024-11-01_09-00-04.png">>[t]

\* t1, t2: the clock at image.save and at the return statement.
decode_base64_image(base64_str, t1, t2) ==
    LET b64 == IF base64_str = PREFIXED_B64 THEN PNG_B64 ELSE base64_str
        img == b64decode(b64)
    IN  IF img.exc # "none"
            THEN [exc |-> img.exc, path |-> "", saved |-> {}]
            ELSE [exc |-> "none", path |-> Png(t2), saved |-> {Png(t1)}]

MSG_TXT == "D:\\msg.txt"

\* One pass of the for loop of lines 213-236 over msg: the pair appended to res
\* (emit), the files written, and the exception the try block caught.
Emit(left, right, written) ==
    [exc |-> "none", emit |-> TRUE, pair |-> <<left, right>>, written |-> written]
Logged(written) ==
    [exc |-> "none", emit |-> FALSE, pair |-> <<NoValue, NoValue>>, written |-> written]
Caught(exc, written) ==
    [exc |-> exc, emit |-> FALSE, pair |-> <<NoValue, NoValue>>, written |-> written]

render_dict(d, t1, t2, disk_ok) ==
    IF ~Has(d, "content") THEN Caught("KeyError", {})
    ELSE LET c == d["content"] IN
    IF c.py = "str" THEN
        IF c.s = "" THEN Caught("IndexError", {}) ELSE Caught("TypeError", {})
    ELSE IF c.items = <<>> THEN Caught("IndexError", {})
    ELSE LET item == c.items[1] IN
    IF ~Has(item, "type") THEN Caught("KeyError", {})
    ELSE IF item["type"] # "image" THEN Logged({})
    ELSE IF ~disk_ok THEN Caught("OSError", {})
    ELSE IF ~Has(item, "source") THEN Caught("KeyError", {MSG_TXT})
    ELSE IF ~Has(item["source"], "data") THEN Caught("KeyError", {MSG_TXT})
    ELSE LET img == decode_base64_image(item["source"]["data"], t1, t2) IN
    IF img.exc # "none" THEN Caught(img.exc, {MSG_TXT})
    ELSE Emit(NoValue, GrImage(img.path), {MSG_TXT} \cup img.saved)

\* As render_text, with the two isinstance branches exchanged.
render_text_mirrored(first) ==
    IF IsInstance(first, {"BetaTextBlock"})
        THEN Emit(Str(<<first.text>>), NoValue, {})
        ELSE Emit(NoValue, Str(<<first.text>>), {})

\* lines 215-218: the side of a text block
render_text(first) ==
    IF IsInstance(first, {"TextBlock"})
        THEN Emit(Str(<<first.text>>), NoValue, {})
        ELSE Emit(NoValue, Str(<<first.text>>), {})

render_turn(msg, t1, t2, disk_ok) ==
    IF ~Has(msg, "content") THEN Caught("KeyError", {})
    ELSE IF msg["content"] = <<>> THEN Caught("IndexError", {})
    ELSE LET first == msg["content"][1] IN
    IF IsInstance(first, {"TextBlock", "BetaTextBlock"})
        THEN render_text(first)
    ELSE IF IsInstance(first, {"BetaToolUseBlock"})
        THEN Emit(NoValue, Str(<<"Tool Use: ", first.name, "\nInput: ", first.input>>), {})
    ELSE IF IsInstance(first, {"Dict"})
        THEN render_dict(first.d, t1, t2, disk_ok)
    ELSE Logged({})

RECURSIVE project_loop(_, _, _, _, _, _, _)
project_loop(msgs, i, res, written, t1, t2, disk_ok) ==
    IF i > Len(msgs) THEN [res |-> res, written |-> written]
    ELSE LET r == render_turn(msgs[i], t1, t2, disk_ok)
         IN  project_loop(msgs, i + 1,
                          IF r.emit THEN Append(res, r.pair) ELSE res,
                          written \cup r.written, t1, t2, disk_ok)

\* As project, but an exception ends the for loop.
RECURSIVE project_abort_loop(_, _, _, _, _, _, _)
project_abort_loop(msgs, i, res, written, t1, t2, disk_ok) ==
    IF i > Len(msgs) THEN [res |-> res, written |-> written]
    ELSE LET r == render_turn(msgs[i], t1, t2, disk_ok)
         IN  IF r.exc # "none" THEN [res |-> res, written |-> written \cup r.written]
             ELSE project_abort_loop(msgs, i + 1,
                          IF r.emit THEN Append(res, r.pair) ELSE res,
                          written \cup r.written, t1, t2, disk_ok)

project_abort(msgs, t1, t2, disk_ok) == project_abort_loop(msgs, 1, <<>>, {}, t1, t2, disk_ok)

project(msgs, t1, t2, disk_ok) == project_loop(msgs, 1, <<>>, {}, t1, t2, disk_ok)

----------------------------------------------------------------------------
(* The conversation store and the callback sinks *)

Store(st) == IF Has(st, "messages") THEN st["messages"] ELSE <<>>

messages == state["messages"]

\* As appendTurn, but the turn is inserted at the front.
appendTurn_front(msgs, role, content) == <<[role |-> role, content |-> content]>> \o msgs

appendTurn(msgs, role, content) == Append(msgs, [role |-> role, content |-> content])

_tool_output_callback(tool_output, tool_id, tool_state) == Put(tool_state, tool_id, tool_output)

_api_response_callback(response, now, response_state) == Put(response_state, now, response)

\* datetime.now().isoformat() read by _api_response_callback: the instant of the
\* latest archived response again, or a later one.
Timestamps(response_state) ==
    LET n == Cardinality(DOMAIN response_state)
    IN  {t \in {n, n + 1} : t >= 1}

\* The tool_result block the agent loop stores for a ToolResult.
make_api_tool_result(tr, tool_use_id) ==
    LET text == IF Truthy(tr.output)
                    THEN <<[type |-> "text", text |-> tr.output]>> ELSE <<>>
        image == IF Truthy(tr.base64_image)
                    THEN <<[type |-> "image",
                            source |-> [type |-> "base64", media_type |-> "image/png",
                                        data |-> tr.base64_image]]>>
                    ELSE <<>>
    IN  [cls |-> "Dict",
         d |-> [type |-> "tool_result", tool_use_id |-> tool_use_id,
                is_error |-> Truthy(tr.error),
                content |-> IF Truthy(tr.error)
                                THEN [py |-> "str", s |-> tr.error, items |-> <<>>]
                                ELSE [py |-> "list", s |-> "", items |-> text \o image]]]

\* What the model may answer with, and what a tool may return.
AssistantContents(n) ==
    { <<BetaTextBlock("done")>>,
      <<BetaToolUseBlock(n, "computer", "{'action': 'screenshot'}")>>,
      <<>> }

ToolResults ==
    { ToolResult("42", None, None),
      ToolResult(None, "boom", None),
      ToolResult(None, None, PNG_B64),
      ToolResult("42", None, PNG_B64) }

Inputs == {"hello"}

IsToolUseTurn(msg) ==
    /\ msg.role = Sender.BOT
    /\ msg.content # <<>>
    /\ msg.content[1].cls = "BetaToolUseBlock"

LastTurn == messages[Len(messages)]

----------------------------------------------------------------------------
(* Initial state: the module-level `state = {}` of line 260 *)

NoCallFrame == [user_input |-> "", run |-> 0]

NoCall == [started |-> FALSE, model |-> "", provider |-> "", api_key |-> ""]

Idle ==
    /\ pending = <<>>
    /\ submitted = 0
    /\ pc = [w \in Workers |-> "idle"]
    /\ local = [w \in Workers |-> NoCallFrame]
    /\ trace = <<>>
    /\ outcome = "none"
    /\ chatbot = <<>>
    /\ files = {}
    /\ loopArgs = NoCall
    /\ owner = <<>>

Init ==
    /\ state = EmptyDict
    /\ env \in Envs
    /\ Idle

----------------------------------------------------------------------------
(* Gradio event dispatch for chat_input.submit(process_input, ...) *)

\* The user presses Enter in chat_input: Gradio queues the event.
Submit(text) ==
    /\ submitted < MaxInputs
    /\ pending' = Append(pending, text)
    /\ submitted' = submitted + 1
    /\ UNCHANGED <<state, env, pc, local, trace, outcome, chatbot, files, loopArgs, owner>>

\* As CanDispatch, with no limit on concurrent calls of the listener.
CanDispatch_unlimited(w) == TRUE

\* Gradio's queue runs at most one call of a listener at a time
\* (the listener of line 297 sets no concurrency_limit).
CanDispatch(w) == \A v \in Workers : pc[v] = "idle"

Dispatch(w) ==
    /\ pending # <<>>
    /\ pc[w] = "idle"
    /\ CanDispatch(w)
    /\ pc' = [pc EXCEPT ![w] = "setup"]
    /\ local' = [local EXCEPT ![w] = [user_input |-> Head(pending),
                                      run |-> submitted - Len(pending) + 1]]
    /\ pending' = Tail(pending)
    /\ trace' = <<>>
    /\ outcome' = "running"
    /\ UNCHANGED <<state, env, submitted, chatbot, files, loopArgs, owner>>

----------------------------------------------------------------------------
(* process_input, statement by statement *)

\* As after, with the transcript built before sampling_loop_wrapper is run.
after_project_first(step) ==
    CASE step = "setup"   -> "append"
      [] step = "append"  -> "project"
      [] step = "project" -> "wrapper"
      [] step = "wrapper" -> "loop"
      [] step = "loop"    -> "idle"

\* The statement process_input executes after `step` has completed.
after(step) ==
    CASE step = "setup"   -> "append"
      [] step = "append"  -> "wrapper"
      [] step = "wrapper" -> "loop"
      [] step = "loop"    -> "project"
      [] step = "project" -> "idle"

\* The exception leaves process_input: the call frame is gone, nothing is returned.
Fail(w) ==
    /\ pc' = [pc EXCEPT ![w] = "idle"]
    /\ local' = [local EXCEPT ![w] = NoCallFrame]
    /\ outcome' = "raised"

\* line 181: setup_state(state)
Setup(w) ==
    /\ pc[w] = "setup"
    /\ LET r == setup_state(state, env) IN
        /\ state' = r.st
        /\ IF r.exc = "none"
            THEN /\ pc' = [pc EXCEPT ![w] = after("setup")]
                 /\ trace' = Append(trace, "bootstrap")
                 /\ UNCHANGED <<outcome, local>>
            ELSE Fail(w) /\ UNCHANGED trace
    /\ UNCHANGED <<env, pending, submitted, chatbot, files, loopArgs, owner>>

\* lines 184-189: state["messages"].append({...})
AppendUser(w) ==
    /\ pc[w] = "append"
    /\ state' = [state EXCEPT !["messages"] =
                    appendTurn(@, Sender.USER, <<TextBlock(local[w].user_input)>>)]
    /\ owner' = Append(owner, local[w].run)
    /\ pc' = [pc EXCEPT ![w] = after("append")]
    /\ trace' = Append(trace, "append")
    /\ UNCHANGED <<env, pending, submitted, local, outcome, chatbot, files, loopArgs>>

\* lines 241-256: the API-key check, then the call of sampling_loop
sampling_loop_wrapper(w) ==
    /\ pc[w] = "wrapper"
    /\ IF ~Truthy(Get(state, "api_key"))
        THEN /\ Fail(w)
             /\ UNCHANGED <<loopArgs, trace>>
        ELSE /\ pc' = [pc EXCEPT ![w] = after("wrapper")]
             /\ loopArgs' = [started |-> TRUE, model |-> state["model"],
                             provider |-> state["provider"],
                             api_key |-> state["api_key"]]
             /\ UNCHANGED <<outcome, local, trace>>
    /\ UNCHANGED <<state, env, pending, submitted, chatbot, files, owner>>

\* sampling_loop: one provider response, archived and appended as an Assistant turn
LoopAssistant(w) ==
    /\ pc[w] = "loop"
    /\ Len(messages) < MaxLoopMsgs
    /\ ~(LastTurn.role = Sender.BOT)
    /\ \E content \in AssistantContents(Len(messages) + 1),
          now \in Timestamps(state["responses"]) :
        /\ state' = [state EXCEPT
                !["responses"] = _api_response_callback("APIResponse", now, @),
                !["messages"] = appendTurn(@, Sender.BOT, content)]
    /\ owner' = Append(owner, local[w].run)
    /\ UNCHANGED <<env, pending, submitted, pc, local, trace, outcome, chatbot, files, loopArgs>>

\* sampling_loop: the requested tool ran; its result is archived and appended as a Tool turn
LoopTool(w) ==
    /\ pc[w] = "loop"
    /\ Len(messages) < MaxLoopMsgs
    /\ IsToolUseTurn(LastTurn)
    /\ \E tr \in ToolResults :
        LET id == LastTurn.content[1].id IN
        state' = [state EXCEPT
                !["tools"] = _tool_output_callback(tr, id, @),
                !["messages"] = appendTurn(@, Sender.TOOL, <<make_api_tool_result(tr, id)>>)]
    /\ owner' = Append(owner, local[w].run)
    /\ UNCHANGED <<env, pending, submitted, pc, local, trace, outcome, chatbot, files, loopArgs>>

\* sampling_loop returns: the model asked for no tool
LoopReturn(w) ==
    /\ pc[w] = "loop"
    /\ LastTurn.role = Sender.BOT
    /\ ~IsToolUseTurn(LastTurn)
    /\ pc' = [pc EXCEPT ![w] = after("loop")]
    /\ trace' = Append(trace, "loop")
    /\ UNCHANGED <<state, env, pending, submitted, local, outcome, chatbot, files,
                   loopArgs, owner>>

\* sampling_loop raises (provider error, tool failure): asyncio.run re-raises
LoopRaise(w) ==
    /\ pc[w] = "loop"
    /\ Fail(w)
    /\ UNCHANGED <<state, env, pending, submitted, trace, chatbot, files, loopArgs, owner>>

\* lines 212-238: the transcript of the store, returned to the Chatbot
Project(w) ==
    /\ pc[w] = "project"
    /\ \E t1 \in Times, t2 \in Times, disk_ok \in BOOLEAN :
        /\ t1 <= t2
        /\ LET p == project(messages, t1, t2, disk_ok) IN
            /\ chatbot' = p.res
            /\ files' = files \cup p.written
    /\ pc' = [pc EXCEPT ![w] = after("project")]
    /\ local' = [local EXCEPT ![w] = NoCallFrame]
    /\ trace' = Append(trace, "project")
    /\ outcome' = "returned"
    /\ UNCHANGED <<state, env, pending, submitted, loopArgs, owner>>

process_input(w) ==
    \/ Setup(w)
    \/ AppendUser(w)
    \/ sampling_loop_wrapper(w)
    \/ LoopAssistant(w)
    \/ LoopTool(w)
    \/ LoopReturn(w)
    \/ LoopRaise(w)
    \/ Project(w)

Next ==
    \/ \E text \in Inputs : Submit(text)
    \/ \E w \in Workers : Dispatch(w)
    \/ \E w \in Workers : process_input(w)

Spec == Init /\ [][Next]_vars

----------------------------------------------------------------------------
(* The projection as a function of the store: any store, either hide_images *)

BaseEnv ==
    [key_file |-> "sk-file", prompt_file |-> MISSING, ANTHROPIC_API_KEY |-> UNSET,
     API_PROVIDER |-> UNSET, aws_credentials |-> TRUE, CLOUD_ML_REGION |-> "us-east5",
     google_credentials |-> TRUE]

ListContent(items) == [py |-> "list", s |-> "", items |-> items]
DictBlock(d) == [cls |-> "Dict", d |-> d]

DictBlocks ==
    { make_api_tool_result(ToolResult(None, None, PNG_B64), 1),
      make_api_tool_result(ToolResult(None, None, PREFIXED_B64), 1),
      make_api_tool_result(ToolResult(None, None, BAD_B64), 1),
      make_api_tool_result(ToolResult("42", None, PNG_B64), 1),
      make_api_tool_result(ToolResult(None, "boom", None), 1),
      make_api_tool_result(ToolResult(None, None, None), 1),
      DictBlock([type |-> "tool_result"]),
      DictBlock([content |-> [py |-> "str", s |-> "", items |-> <<>>]]),
      DictBlock([content |-> ListContent(<<[text |-> "42"]>>)]),
      DictBlock([content |-> ListContent(<<[type |-> "image"]>>)]),
      DictBlock([content |-> ListContent(<<[type |-> "image",
                                            source |-> [type |-> "base64"]]>>)]) }

AnyTurns ==
    { [role |-> r, content |-> <<b>>] :
        r \in {Sender.USER, Sender.BOT, Sender.TOOL},
        b \in {TextBlock("hello"), BetaTextBlock("hello")} }
    \cup { [role |-> Sender.TOOL, content |-> <<b>>] : b \in DictBlocks }
    \cup { [role |-> Sender.BOT,
            content |-> <<BetaToolUseBlock(1, "computer", "{'action': 'screenshot'}"),
                          BetaTextBlock("hello")>>],
           [role |-> Sender.BOT,
            content |-> <<[cls |-> "ToolUseBlock", id |-> 1, name |-> "computer",
                           input |-> "{}"]>>],
           [role |-> Sender.USER, content |-> <<[cls |-> "str", text |-> "raw"]>>],
           [role |-> Sender.BOT, content |-> <<>>],
           [role |-> Sender.BOT] }

RECURSIVE SeqsUpTo(_, _)
SeqsUpTo(S, n) ==
    IF n = 0 THEN {<<>>}
    ELSE LET shorter == SeqsUpTo(S, n - 1)
         IN  shorter \cup {Append(q, x) : q \in shorter, x \in S}

RenderInit ==
    /\ env = BaseEnv
    /\ \E store \in SeqsUpTo(AnyTurns, MaxStore), hide \in BOOLEAN :
        /\ state = [setup_state(EmptyDict, BaseEnv).st EXCEPT
                        !["messages"] = store, !["hide_images"] = hide]
        /\ owner = [i \in 1..Len(store) |-> 1]
    /\ pending = <<>>
    /\ submitted = 1
    /\ pc = [w \in Workers |-> IF w = 1 THEN "project" ELSE "idle"]
    /\ local = [w \in Workers |->
                    IF w = 1 THEN [user_input |-> "hello", run |-> 1] ELSE NoCallFrame]
    /\ trace = <<"bootstrap", "append", "loop">>
    /\ outcome = "running"
    /\ chatbot = <<>>
    /\ files = {}
    /\ loopArgs = [started |-> TRUE, model |-> state["model"],
                   provider |-> state["provider"], api_key |-> state["api_key"]]

RenderNext == \E w \in Workers : Project(w)

SpecRender == RenderInit /\ [][RenderNext]_vars

----------------------------------------------------------------------------
(* The bootstrap as a function of the state dict: any set of keys already set *)

Preset ==
    [messages |-> <<[role |-> Sender.USER, content |-> <<TextBlock("earlier")>>]>>,
     api_key |-> "sk-preset",
     provider |-> "vertex",
     provider_radio |-> "bedrock",
     model |-> "custom-model",
     auth_validated |-> TRUE,
     responses |-> Put(EmptyDict, 1, "APIResponse"),
     tools |-> Put(EmptyDict, 1, ToolResult("42", None, None)),
     only_n_most_recent_images |-> 3,
     custom_system_prompt |-> "preset prompt",
     hide_images |-> TRUE]

BootInit ==
    /\ env \in Envs
    /\ \E keys \in SUBSET (DOMAIN Preset) : state = [k \in keys |-> Preset[k]]
    /\ Idle

\* lines 75-78: main(state)
main ==
    /\ LET r == setup_state(state, env) IN
        /\ state' = r.st
        /\ outcome' = IF r.exc = "none" THEN "returned" ELSE "raised"
    /\ UNCHANGED <<env, pending, submitted, pc, local, trace, chatbot, files, loopArgs, owner>>

BootNext == main

SpecBoot == BootInit /\ [][BootNext]_vars

----------------------------------------------------------------------------
(* Properties *)

IsPrefix(a, b) == Len(a) <= Len(b) /\ \A i \in 1..Len(a) : a[i] = b[i]

UserTurn(text) == [role |-> Sender.USER, content |-> <<TextBlock(text)>>]

Running == {w \in Workers : pc[w] # "idle"}

\* C1: state["messages"] is append-only: along every step the old store is an
\* unchanged prefix of the new one, and the step of process_input that appends the
\* user turn makes the store exactly one longer, the new last turn being that turn.
C1_AppendOnly ==
    [][ /\ IsPrefix(Store(state), Store(state'))
        /\ \A w \in Workers :
            pc[w] = "append" /\ pc'[w] # "append" =>
                /\ Len(Store(state')) = Len(Store(state)) + 1
                /\ Store(state')[Len(Store(state'))] = UserTurn(local[w].user_input)
                /\ pc'[w] = "wrapper" ]_vars

C1_Witness ==
    /\ Len(Store(state)) >= 4
    /\ \E i, j \in 1..Len(Store(state)) :
        /\ i < j
        /\ Store(state)[i].role = Sender.USER /\ owner[i] = 1
        /\ Store(state)[j].role = Sender.USER /\ owner[j] = 2
    /\ \E i \in 1..Len(Store(state)) : Store(state)[i].role = Sender.TOOL

\* C2: a turn with an empty content sequence is rejected by the append: no turn
\* of the store ever has an empty content sequence.
C2_EmptyTurnNeverStored ==
    \A i \in 1..Len(Store(state)) : Store(state)[i].content # <<>>

\* C3: setup_state leaves every key that is already present with its value, and a
\* second call right after any call changes no field.
C3_BootstrapIdempotent ==
    [][ /\ \A k \in DOMAIN state : k \in DOMAIN state' /\ state'[k] = state[k]
        /\ setup_state(state', env).st = state' ]_vars

C3_Witness ==
    /\ outcome = "returned"
    /\ state["model"] = Preset["model"]
    /\ state["hide_images"] = TRUE
    /\ state["api_key"] = "sk-env"
    /\ state["messages"] = <<>>

\* C4: whenever the session has a model, it is the default model of the session's
\* provider, the provider never changes once set, and every sampling_loop call is
\* given the default model of the provider it is given.
C4_ModelIsProviderDefault ==
    /\ [](Has(state, "model") =>
            /\ state["provider"] \in DOMAIN PROVIDER_TO_DEFAULT_MODEL_NAME
            /\ state["model"] = PROVIDER_TO_DEFAULT_MODEL_NAME[state["provider"]])
    /\ [](loopArgs.started =>
            /\ loopArgs.provider = state["provider"]
            /\ loopArgs.model = PROVIDER_TO_DEFAULT_MODEL_NAME[loopArgs.provider])
    /\ [][Has(state, "provider") =>
            Has(state', "provider") /\ state'["provider"] = state["provider"]]_vars

C4_Witness ==
    /\ loopArgs.started
    /\ loopArgs.provider = "bedrock"
    /\ outcome = "returned"

\* The session is credential-ready: an API key was found in storage or in the
\* environment, and validate_auth has no complaint about it.
FoundKey == Or(load_from_storage(env, "api_key"), getenv(env, "ANTHROPIC_API_KEY", ""))

CredentialReady ==
    /\ Truthy(FoundKey)
    /\ Has(state, "provider")
    /\ validate_auth(state["provider"], FoundKey, env) = None

\* C5: sampling_loop is never started in a session that is not credential-ready.
C5_NoLoopWithoutCredentials == loopArgs.started => CredentialReady

\* C6 as claimed: the role of a text turn decides its side: a User turn is shown as
\* (text, None) and an Assistant turn as (None, text), whatever class the block has.
IsTextTurn(msg) ==
    /\ Has(msg, "content")
    /\ msg["content"] # <<>>
    /\ msg["content"][1].cls \in {"TextBlock", "BetaTextBlock"}

AllTextTurns == \A i \in 1..Len(Store(state)) : IsTextTurn(Store(state)[i])

C6_RoleDecidesSide ==
    outcome = "returned" /\ AllTextTurns =>
        /\ Len(chatbot) = Len(Store(state))
        /\ \A i \in 1..Len(Store(state)) :
            LET msg == Store(state)[i]
                text == Str(<<msg["content"][1].text>>)
            IN  /\ msg.role = Sender.USER => chatbot[i] = <<text, NoValue>>
                /\ msg.role = Sender.BOT => chatbot[i] = <<NoValue, text>>

\* C6 amended: the class of the text block decides the side: a TextBlock is shown
\* as (text, None) and a BetaTextBlock as (None, text), whatever the role of the turn.
C6_ClassDecidesSide ==
    outcome = "returned" /\ AllTextTurns =>
        /\ Len(chatbot) = Len(Store(state))
        /\ \A i \in 1..Len(Store(state)) :
            LET first == Store(state)[i]["content"][1]
                text == Str(<<first.text>>)
            IN  /\ first.cls = "TextBlock" => chatbot[i] = <<text, NoValue>>
                /\ first.cls = "BetaTextBlock" => chatbot[i] = <<NoValue, text>>

C6_Witness ==
    /\ outcome = "returned"
    /\ Len(Store(state)) = 2
    /\ Store(state)[1] = [role |-> Sender.USER, content |-> <<TextBlock("hello")>>]
    /\ Store(state)[2] = [role |-> Sender.BOT, content |-> <<BetaTextBlock("hello")>>]
    /\ chatbot = << <<Str(<<"hello">>), NoValue>>, <<NoValue, Str(<<"hello">>)>> >>

\* The rule of C7 for a tool result: the value shown on the right, or no pair.
ToolResultRule(tr, hide) ==
    IF hide /\ ~Truthy(tr.output) /\ ~Truthy(tr.error) /\ Truthy(tr.base64_image)
        THEN [emit |-> FALSE, kind |-> "None", v |-> <<>>]
    ELSE IF Truthy(tr.output) THEN [emit |-> TRUE, kind |-> "str", v |-> <<tr.output>>]
    ELSE IF Truthy(tr.error)
        THEN [emit |-> TRUE, kind |-> "str", v |-> <<"Error: ", tr.error>>]
    ELSE IF Truthy(tr.base64_image) /\ ~hide
        THEN [emit |-> TRUE, kind |-> "image", v |-> <<>>]
    ELSE [emit |-> FALSE, kind |-> "None", v |-> <<>>]

FollowsRule(rule, emitted, value) ==
    /\ emitted = rule.emit
    /\ rule.kind = "str" => value = Str(rule.v)
    /\ rule.kind = "image" => value.t \in {"bytes", "gr.Image"}
    /\ rule.kind = "None" => value = NoValue

IsToolResultTurn(msg) ==
    /\ Has(msg, "content")
    /\ msg["content"] # <<>>
    /\ msg["content"][1].cls = "Dict"
    /\ Has(msg["content"][1].d, "tool_use_id")

\* C7: every tool result follows the rule in both renderers: in _render_message and
\* in the pair the projection of process_input yields for its turn.
C7_ToolResultRule ==
    \A i \in 1..Len(Store(state)) :
        IsToolResultTurn(Store(state)[i]) =>
            LET tr == state["tools"][Store(state)[i]["content"][1].d["tool_use_id"]]
                rule == ToolResultRule(tr, state["hide_images"])
                shown == _render_message(Sender.BOT, tr, state)
                r == render_turn(Store(state)[i], 1, 1, TRUE)
            IN  /\ FollowsRule(rule, shown # NoValue, shown)
                /\ FollowsRule(rule, r.emit, r.pair[2])
                /\ r.pair[1] = NoValue

\* The pairs of the turns of msgs that render, in the order of msgs.
RECURSIVE PairsOfRenderable(_, _, _, _)
PairsOfRenderable(msgs, t1, t2, disk_ok) ==
    IF msgs = <<>> THEN <<>>
    ELSE LET r == render_turn(Head(msgs), t1, t2, disk_ok)
         IN  (IF r.exc = "none" /\ r.emit THEN <<r.pair>> ELSE <<>>)
                \o PairsOfRenderable(Tail(msgs), t1, t2, disk_ok)

\* The first block of msg is one the projection has a branch for.
Recognized(msg) ==
    /\ Has(msg, "content")
    /\ msg["content"] # <<>>
    /\ LET first == msg["content"][1] IN
        \/ first.cls \in {"TextBlock", "BetaTextBlock", "BetaToolUseBlock"}
        \/ /\ first.cls = "Dict"
           /\ Has(first.d, "content")
           /\ first.d["content"].py = "list"
           /\ first.d["content"].items # <<>>
           /\ Has(first.d["content"].items[1], "type")
           /\ first.d["content"].items[1]["type"] = "image"

CallOrder == <<"bootstrap", "append", "loop", "project">>

LatestRun == submitted - Len(pending)

\* C10: the steps of one call happen in the order bootstrap, append, loop, project;
\* a raise ends the call with the store as it is (the user turn stays) and with no
\* new transcript; a transcript is only ever the projection of a store no loop is
\* still writing.
C10_StepOrderNoRollback ==
    /\ [](IsPrefix(trace, CallOrder))
    /\ [](outcome = "raised" /\ Len(trace) >= 2 =>
            \E i \in 1..Len(Store(state)) :
                /\ owner[i] = LatestRun
                /\ \E text \in Inputs : Store(state)[i] = UserTurn(text))
    /\ [][outcome' = "raised" /\ outcome # "raised" =>
            Store(state') = Store(state) /\ chatbot' = chatbot]_vars
    /\ [][chatbot' # chatbot =>
            /\ outcome' = "returned"
            /\ \A w \in Workers : pc'[w] # "loop"
            /\ \E t1 \in Times, t2 \in Times, disk_ok \in BOOLEAN :
                chatbot' = project(Store(state), t1, t2, disk_ok).res]_vars

C10_Witness ==
    /\ Len(Store(state)) = 2
    /\ Store(state)[1].role = Sender.USER /\ owner[1] = 1
    /\ Store(state)[2].role = Sender.USER /\ owner[2] = 2
    /\ chatbot = <<>>
    /\ \E w \in Workers : pc[w] = "wrapper"

====
